---- MODULE Spec2Model ----
(***************************************************************************)
(* Event-sourced aggregate and projection consistency of the shared        *)
(* kernel: Projector.process (ordered, idempotent, gap-detecting event     *)
(* application against a position-tracked read model) and the Aggregate    *)
(* raise/apply/clear state machine.                                        *)
(***************************************************************************)
EXTENDS Integers, Sequences, FiniteSets, TLC

VARIABLES
    position_store,   \* the position store behind Projection.get_position / update_position
    read_model,       \* the Projection's read model, per entity
    applied,          \* completed Projection.apply calls per <<entity, event type, position>>
    last,             \* what the last sequential Projector.process call did
    stream,           \* the event stream of one entity being delivered in order
    cursor,           \* the stream position delivered last
    pc,               \* where each concurrent caller stands inside Projector.process
    frame,            \* each concurrent caller's arguments and its current_position local
    result,           \* how each concurrent caller's last call ended
    calls,            \* process calls begun by the concurrent callers
    agg,              \* the User aggregate: name, _version and the _events buffer
    raised,           \* the events raised with success since construction or clear_events
    changes_view,     \* the tuple the last read of Aggregate.changes returned
    agg_last,         \* what the last operation on the aggregate did
    agg_born,         \* the version and name the aggregate was constructed with, and
                      \* the events applied to it with success since
    listeners,        \* EventDispatcher._listeners: event type -> the Projectors subscribed
    subscribed,       \* the Projectors of the subscribe calls that returned True, in call order
    listener_store,   \* the position store of each subscribed Projector's projection
    mapper,           \* EventDispatcher._mapper: the mapping pipeline it was built with
    sub_last,         \* what the last subscribe call did
    disp_last,        \* what the last dispatch call did
    chain_first,      \* MappersChain._first
    chain_next,       \* Mapper._next of each mapper instance
    chain_mappers,    \* MappersChain._mappers
    chain_added,      \* the mappers of the add calls, in call order
    pipeline,         \* MappingPipeline._chain
    map_last,         \* what the last map call of the chain or of the pipeline did
    bus_handlers,     \* ServiceBus._handlers: request type -> command or query handler
    bus_validators,   \* ServiceBus._validators: request type -> validator
    request_id_var,   \* the context variable "request-id"
    reg_last,         \* what the last register call did
    send_last         \* what the last send call did

vars == <<position_store, read_model, applied, last, stream, cursor,
          pc, frame, result, calls, agg, raised, changes_view, agg_last, agg_born,
          listeners, subscribed, listener_store, mapper, sub_last, disp_last,
          chain_first, chain_next, chain_mappers, chain_added, pipeline, map_last,
          bus_handlers, bus_validators, request_id_var, reg_last, send_last>>

dispatcher_vars == <<listeners, subscribed, listener_store, mapper, sub_last, disp_last>>

mapper_vars == <<chain_first, chain_next, chain_mappers, chain_added, pipeline, map_last>>

bus_vars == <<bus_handlers, bus_validators, request_id_var, reg_last, send_last>>

service_vars == <<dispatcher_vars, mapper_vars, bus_vars>>

aggregate_vars == <<agg, raised, changes_view, agg_last, agg_born>>

projection_vars == <<position_store, read_model, applied>>

sequential_vars == <<last, stream, cursor>>

concurrent_vars == <<pc, frame, result, calls>>

----------------------------------------------------------------------------
(* Bounds *)

\* the largest stream position a call carries
MaxPos == 3

\* the longest stream delivered in order
MaxStream == 3

\* process calls the concurrent callers begin, all together
MaxConcurrentCalls == 3

\* the most events the pending-events buffer holds, and the longest history replayed
MaxChanges == 2

\* the largest version an aggregate is constructed with
MaxVersion == 1

\* the most events applied to one aggregate
MaxApplied == 3

\* the most subscribe calls that return True
MaxSubscribes == 3

\* the largest position of a dispatched Event
MaxDispatchPos == 2

\* the most add calls on one MappersChain
MaxAdds == 3

\* the most behaviors registered in one MappingPipeline
MaxBehaviors == 2

----------------------------------------------------------------------------
(* Events, entities and the projection under test *)

Entities == {"E1", "E2"}

\* the events UserDetailsProjection registers a handler for
HandledTypes == {"UserRegistered", "UserNameUpdated"}

\* the event classes declared next to the projection
EventTypes == HandledTypes \cup {"UserLoggedIn"}

ProjectionName == "UserDetailsProjection"

Positions == 0..MaxPos

Keys == Entities \X EventTypes

\* DomainEvent.qualname: the name of the event's class
qualname(event) == event.type

DomainEvents == [type : EventTypes]

----------------------------------------------------------------------------
(* Errors *)

\* OutOfOrderEvent.__init__: the message of the exception
OutOfOrderEventMessage(entity_id, position) ==
    "Event out of order received at position " \o ToString(position)
        \o " for Projection '" \o entity_id \o "'."

\* UnknownEvent.__init__: the message of the exception
UnknownEventMessage(event_name, aggregate_name) ==
    "Event '" \o event_name \o "' cannot be applied to '" \o aggregate_name \o "'"

----------------------------------------------------------------------------
(* Projection: the position store and apply *)

\* a plausible slip: the position is looked up by entity alone, the latest of its types
get_position_of_entity(store, entity_id, event_type) ==
    CHOOSE p \in {store[<<entity_id, t>>] : t \in EventTypes} :
        \A t \in EventTypes : store[<<entity_id, t>>] <= p

\* Projection.get_position of an honest store: what update_position stored last, 0 if never
get_position(store, entity_id, event_type) == store[<<entity_id, event_type>>]

\* a plausible slip: the position after the one applied is recorded
update_position_next(store, entity_id, event_type, position) ==
    [store EXCEPT ![<<entity_id, event_type>>] = position + 1]

\* Projection.update_position of an honest store
update_position(store, entity_id, event_type, position) ==
    [store EXCEPT ![<<entity_id, event_type>>] = position]

\* whether the projection's apply dispatch has a handler registered for the event
ProjectionHandles(event) == event.type \in HandledTypes

\* the read model after a registered handler has run for the event
ProjectionApply(model, event) ==
    [events_applied |-> model.events_applied + 1, last_event |-> event.type]

----------------------------------------------------------------------------
(* Projector.process *)

\* a plausible slip: "already applied" tested against the current position itself
DecisionSkipBelowCurrent(position, current_position) ==
    IF position < current_position THEN "skipped"
    ELSE IF position > current_position + 1 THEN "OutOfOrderEvent"
    ELSE "apply"

\* a plausible slip: the gap test left out
DecisionAcceptGap(position, current_position) ==
    IF position < current_position + 1 THEN "skipped"
    ELSE "apply"

\* a plausible slip: only the latest position counts as already applied
DecisionSkipOnlyLatest(position, current_position) ==
    IF position = current_position THEN "skipped"
    ELSE IF position > current_position + 1 THEN "OutOfOrderEvent"
    ELSE "apply"

\* the ordering decision of process: lines 100 and 104
Decision(position, current_position) ==
    IF position < current_position + 1 THEN "skipped"
    ELSE IF position > current_position + 1 THEN "OutOfOrderEvent"
    ELSE "apply"

\* the outcome of a whole process call whose position read returned current_position
Outcome(event, position, current_position) ==
    LET d == Decision(position, current_position) IN
    IF d # "apply" THEN d
    ELSE IF ProjectionHandles(event) THEN "applied" ELSE "UnknownEvent"

\* the exception message a call ends with, "" when it returns
Message(outcome, event, position, entity_id) ==
    IF outcome = "OutOfOrderEvent" THEN OutOfOrderEventMessage(entity_id, position)
    ELSE IF outcome = "UnknownEvent"
         THEN UnknownEventMessage(event.type, ProjectionName)
    ELSE ""

\* a plausible slip: the position recorded before apply has succeeded
UpdateCalledBeforeApply(outcome) == outcome \in {"applied", "UnknownEvent"}

\* whether the call reaches update_position: only once apply has returned
UpdateCalled(outcome) == outcome = "applied"

\* whether the call reaches Projection.apply
ApplyCalled(outcome) == outcome \in {"applied", "UnknownEvent"}

AppliedKey(entity_id, event_type, position) == <<<<entity_id, event_type>>, position>>

NoCall ==
    [entity_id |-> "", event_type |-> "", position |-> 0, current_position |-> 0,
     outcome |-> "none", message |-> "", apply_called |-> FALSE,
     update_called |-> FALSE]

\* Projector.process(event, position, entity_id), run to its return or raise
Process(event, position, entity_id) ==
    LET event_type == qualname(event)
        current_position == get_position(position_store, entity_id, event_type)
        outcome == Outcome(event, position, current_position)
    IN  /\ read_model' =
              IF outcome = "applied"
              THEN [read_model EXCEPT ![entity_id] = ProjectionApply(@, event)]
              ELSE read_model
        /\ applied' =
              IF outcome = "applied"
              THEN [applied EXCEPT ![AppliedKey(entity_id, event_type, position)] = @ + 1]
              ELSE applied
        /\ position_store' =
              IF UpdateCalled(outcome)
              THEN update_position(position_store, entity_id, event_type, position)
              ELSE position_store
        /\ last' = [entity_id |-> entity_id, event_type |-> event_type,
                    position |-> position, current_position |-> current_position,
                    outcome |-> outcome,
                    message |-> Message(outcome, event, position, entity_id),
                    apply_called |-> ApplyCalled(outcome),
                    update_called |-> UpdateCalled(outcome)]

\* any caller: any event, position and entity
ProcessCall ==
    \E event \in DomainEvents, position \in Positions, entity_id \in Entities :
        /\ Process(event, position, entity_id)
        /\ UNCHANGED <<stream, cursor>>
        /\ UNCHANGED concurrent_vars
        /\ UNCHANGED <<aggregate_vars, service_vars>>

InitProjection ==
    /\ position_store = [k \in Keys |-> 0]
    /\ read_model = [e \in Entities |-> [events_applied |-> 0, last_event |-> ""]]
    /\ applied = [k \in Keys \X Positions |-> 0]
    /\ last = NoCall

NoStream == [entity_id |-> "", events |-> <<>>]

\* the hosts that call one Projector concurrently
Workers == {"w1", "w2"}

NoFrame == [entity_id |-> "", event |-> [type |-> ""], position |-> 0,
            current_position |-> 0]

InitWorkers ==
    /\ pc = [w \in Workers |-> "idle"]
    /\ frame = [w \in Workers |-> NoFrame]
    /\ result = [w \in Workers |-> "none"]
    /\ calls = 0

\* the aggregate before any is constructed
NoAggregate == [name |-> "", version |-> 0, events |-> <<>>]

NoOperation == [op |-> "none", event_type |-> "", outcome |-> "none", message |-> ""]

\* the domain event a mapper that returns None yields
NoEvent == [type |-> ""]

\* the Projectors of event_dispatcher_test.py, each named by its projection
Projectors == {"UserDetailsProjection", "AccountDetailsProjection", "UserListProjection"}

\* the mapping pipelines a dispatcher is built with: the two stubs of the test, a stub
\* like FakeDomainEventMapper that returns a UserNameUpdated, a pipeline holding
\* UserRegisteredMapper only, and a pipeline with a mapper for every event class
Mappers ==
    {"NoDomainEventMapper", "FakeDomainEventMapper", "FakeNameUpdatedMapper",
     "UserRegisteredMapper", "MappingPipeline"}

NoSubscribe == [listener |-> "", outcome |-> "none", message |-> ""]

NoDispatch ==
    [event_type |-> "", position |-> 0, stream_id |-> "", outcome |-> "none",
     message |-> "", map_called |-> FALSE, domain_event |-> NoEvent, process_calls |-> <<>>]

\* EventDispatcher.__init__, around Projectors whose projections have seen nothing
InitDispatcher ==
    /\ listeners = [event_type \in EventTypes |-> <<>>]
    /\ subscribed = <<>>
    /\ listener_store = [listener \in Projectors |-> [k \in Keys |-> 0]]
    /\ sub_last = NoSubscribe
    /\ disp_last = NoDispatch

\* the mapper instances of mappers_test.py, and a second UserRegisteredMapper()
MapperInstances == {"registered_mapper", "logged_in_mapper", "other_registered_mapper"}

\* Mapper._next and MappersChain._first when they hold None
NoMapper == "None"

\* the None a map call returns, as a domain event with its producer
NoResult == [type |-> "", mapped_by |-> ""]

NoMap == [op |-> "none", event_type |-> "", outcome |-> "none", result |-> NoResult,
          called |-> <<>>]

\* MappersChain.__init__, Mapper.__init__ and MappingPipeline.__init__
InitMappers ==
    /\ chain_first = NoMapper
    /\ chain_next = [m \in MapperInstances |-> NoMapper]
    /\ chain_mappers = <<>>
    /\ chain_added = <<>>
    /\ pipeline = <<>>
    /\ map_last = NoMap

\* the request classes of service_bus_test.py, and the domain event sent as a request
RequestTypes == {"RegisterUser", "GetUserByID", "UserRegistered"}

\* a request type with no entry in _handlers or _validators
NoHandler == "None"

\* request_id_var before any set: get of it yields its default
Unset == "unset"

NoRegister == [handler |-> "", request_type |-> "", outcome |-> "none", message |-> ""]

NoSend ==
    [request |-> [type |-> "", name |-> "", user_id |-> ""], request_id |-> "",
     before |-> Unset, seen |-> "", validated_by |-> NoHandler, executed_by |-> NoHandler,
     raised |-> "", outcome |-> "none", status_code |-> 0]

\* ServiceBus.__init__
InitBus ==
    /\ bus_handlers = [request_type \in RequestTypes |-> NoHandler]
    /\ bus_validators = [request_type \in RequestTypes |-> NoHandler]
    /\ reg_last = NoRegister
    /\ send_last = NoSend

IdleServices ==
    /\ InitDispatcher
    /\ mapper = "NoDomainEventMapper"
    /\ InitMappers
    /\ InitBus
    /\ request_id_var = Unset

IdleAggregate ==
    /\ agg = NoAggregate
    /\ raised = <<>>
    /\ changes_view = <<>>
    /\ agg_last = NoOperation
    /\ agg_born = [version |-> 0, applied |-> 0, name |-> ""]

Init ==
    /\ InitProjection
    /\ InitWorkers
    /\ IdleAggregate
    /\ IdleServices
    /\ stream = NoStream
    /\ cursor = 0

Next == ProcessCall

Spec == Init /\ [][Next]_vars

----------------------------------------------------------------------------
(* In-order delivery of one entity's stream *)

RECURSIVE SeqsOfLen(_, _)
SeqsOfLen(S, n) ==
    IF n = 0 THEN {<<>>}
    ELSE {Append(q, x) : q \in SeqsOfLen(S, n - 1), x \in S}

\* streams of handled events at consecutive positions 1..n
Streams ==
    [entity_id : Entities,
     events : UNION {SeqsOfLen(HandledTypes, n) : n \in 1..MaxStream}]

\* the caller delivers the stream in non-decreasing position order:
\* the position delivered last again, or the next one
Deliver ==
    \E position \in {cursor, cursor + 1} :
        /\ position \in 1..Len(stream.events)
        /\ position \in Positions
        /\ Process([type |-> stream.events[position]], position, stream.entity_id)
        /\ cursor' = position
        /\ UNCHANGED stream
        /\ UNCHANGED concurrent_vars
        /\ UNCHANGED <<aggregate_vars, service_vars>>

InitFeed ==
    /\ InitProjection
    /\ InitWorkers
    /\ IdleAggregate
    /\ IdleServices
    /\ stream \in Streams
    /\ cursor = 0

NextFeed == Deliver

SpecFeed == InitFeed /\ [][NextFeed]_vars

----------------------------------------------------------------------------
(* Projector.process called by concurrent hosts: one step per call into the        *)
(* Projection (get_position, apply, update_position), nothing held between them    *)

\* lines 97-106: read the position, then skip, raise or go on to apply
ReadAndCheckSteps(w, event, position, entity_id) ==
    LET current_position == get_position(position_store, entity_id, qualname(event))
        d == Decision(position, current_position)
    IN  /\ pc[w] = "idle"
        /\ calls < MaxConcurrentCalls
        /\ calls' = calls + 1
        /\ frame' = [frame EXCEPT ![w] =
                        [entity_id |-> entity_id, event |-> event,
                         position |-> position,
                         current_position |-> current_position]]
        /\ pc' = [pc EXCEPT ![w] = IF d = "apply" THEN "apply" ELSE "idle"]
        /\ result' = [result EXCEPT ![w] = IF d = "apply" THEN "running" ELSE d]
        /\ UNCHANGED projection_vars
        /\ UNCHANGED sequential_vars
        /\ UNCHANGED <<aggregate_vars, service_vars>>

\* a variant that serializes the calls for one entity: a call waits while another
\* call for the same entity is between its position read and its update_position
ReadAndCheckSerialized(w, event, position, entity_id) ==
    /\ \A v \in Workers \ {w} : pc[v] = "idle" \/ frame[v].entity_id # entity_id
    /\ ReadAndCheckSteps(w, event, position, entity_id)

\* process as written: it takes no lock and does no compare-and-swap before it reads
ReadAndCheck(w, event, position, entity_id) ==
    ReadAndCheckSteps(w, event, position, entity_id)

\* line 108: Projection.apply, which raises UnknownEvent for an unhandled event
ApplyStep(w) ==
    /\ pc[w] = "apply"
    /\ IF ProjectionHandles(frame[w].event)
       THEN /\ read_model' = [read_model EXCEPT ![frame[w].entity_id] =
                                 ProjectionApply(@, frame[w].event)]
            /\ applied' = [applied EXCEPT
                              ![AppliedKey(frame[w].entity_id,
                                           qualname(frame[w].event),
                                           frame[w].position)] = @ + 1]
            /\ pc' = [pc EXCEPT ![w] = "update"]
            /\ UNCHANGED result
       ELSE /\ pc' = [pc EXCEPT ![w] = "idle"]
            /\ result' = [result EXCEPT ![w] = "UnknownEvent"]
            /\ UNCHANGED <<read_model, applied>>
    /\ UNCHANGED <<position_store, frame, calls>>
    /\ UNCHANGED sequential_vars
    /\ UNCHANGED <<aggregate_vars, service_vars>>

\* line 111: Projection.update_position with the position of the call
UpdatePositionStep(w) ==
    /\ pc[w] = "update"
    /\ position_store' = update_position(position_store, frame[w].entity_id,
                                         qualname(frame[w].event), frame[w].position)
    /\ pc' = [pc EXCEPT ![w] = "idle"]
    /\ result' = [result EXCEPT ![w] = "applied"]
    /\ UNCHANGED <<read_model, applied, frame, calls>>
    /\ UNCHANGED sequential_vars
    /\ UNCHANGED <<aggregate_vars, service_vars>>

BeginCall ==
    \E w \in Workers, event \in DomainEvents, position \in Positions,
       entity_id \in Entities :
        ReadAndCheck(w, event, position, entity_id)

ApplyCall == \E w \in Workers : ApplyStep(w)

UpdateCall == \E w \in Workers : UpdatePositionStep(w)

NextConcurrent == BeginCall \/ ApplyCall \/ UpdateCall

SpecConcurrent == Init /\ [][NextConcurrent]_vars

----------------------------------------------------------------------------
(* Aggregate: the User aggregate of the model tests over the Aggregate base class *)

AggregateName == "User"

\* the events User registers a transition for
AggregateHandledTypes == {"UserRegistered", "UserNameUpdated"}

Names == {"John Doe", "John Doe Smith"}

\* UserRegistered(name), UserNameUpdated(new_name) and UserLoggedIn(name); the field
\* name stands for new_name in UserNameUpdated
AggregateEvents ==
    {[type |-> "UserRegistered", name |-> "John Doe"],
     [type |-> "UserNameUpdated", name |-> "John Doe Smith"],
     [type |-> "UserLoggedIn", name |-> "John Doe"]}

\* a plausible slip: the fallback of the dispatch does nothing instead of raising
AggregateHandlesAny(event) == TRUE

\* whether User._apply dispatches the event to a registered _when; every other event
\* falls back to Aggregate._apply, which raises UnknownEvent
AggregateHandles(event) == event.type \in AggregateHandledTypes

\* User._when: the state after a registered transition (version is not touched)
UserApply(a, event) ==
    IF event.type \in AggregateHandledTypes
    THEN [a EXCEPT !.name = event.name]
    ELSE a

\* a plausible slip: the event put at the front of the deque
BufferAppendLeft(events, event) == <<event>> \o events

\* _raise_event line 126: self._events.append(event)
BufferAppend(events, event) == Append(events, event)

\* whether the value Aggregate.changes returns is the buffer itself: tuple(...) copies
ChangesSharesBuffer == FALSE

\* Aggregate.changes: tuple(self._events)
Changes(a) == a.events

Raised(op, event) ==
    [op |-> op, event_type |-> event.type, outcome |-> "UnknownEvent",
     message |-> UnknownEventMessage(event.type, AggregateName)]

Returned(op, event_type) ==
    [op |-> op, event_type |-> event_type, outcome |-> "ok", message |-> ""]

\* Aggregate._raise_event: _apply first, then the append
\* a plausible slip: the event is appended before _apply is called
RaiseRefusedAfterAppend(a, event) == [a EXCEPT !.events = Append(@, event)]

\* the aggregate when _apply raised at _raise_event line 125: line 126 is not reached
RaiseRefused(a, event) == a

RaiseEvent(event) ==
    /\ Len(agg.events) < MaxChanges
    /\ agg_born.applied < MaxApplied
    /\ IF AggregateHandles(event)
       THEN /\ agg' = [UserApply(agg, event) EXCEPT
                          !.events = BufferAppend(agg.events, event)]
            /\ raised' = Append(raised, event)
            /\ agg_last' = Returned("raise_event", event.type)
            /\ agg_born' = [agg_born EXCEPT !.applied = @ + 1]
       ELSE /\ agg' = RaiseRefused(agg, event)
            /\ agg_last' = Raised("raise_event", event)
            /\ UNCHANGED <<raised, agg_born>>
    /\ UNCHANGED changes_view

\* User._apply called on its own, as replay does
ApplyEvent(event) ==
    /\ agg_born.applied < MaxApplied
    /\ IF AggregateHandles(event)
       THEN /\ agg' = UserApply(agg, event)
            /\ agg_last' = Returned("apply", event.type)
            /\ agg_born' = [agg_born EXCEPT !.applied = @ + 1]
       ELSE /\ agg_last' = Raised("apply", event)
            /\ UNCHANGED <<agg, agg_born>>
    /\ UNCHANGED <<raised, changes_view>>

\* a plausible slip: popleft, which drops one event, in place of clear
ClearedByPopLeft(a) ==
    [a EXCEPT !.events = IF @ = <<>> THEN <<>> ELSE Tail(@)]

\* a plausible slip: the version brought up to date with the events given up
ClearedSyncsVersion(a) ==
    [a EXCEPT !.events = <<>>, !.version = @ + Len(a.events)]

\* the aggregate after clear_events line 130: self._events.clear()
Cleared(a) == [a EXCEPT !.events = <<>>]

\* Aggregate.clear_events
ClearEvents ==
    /\ agg' = Cleared(agg)
    /\ raised' = <<>>
    /\ agg_last' = Returned("clear_events", "")
    /\ UNCHANGED <<changes_view, agg_born>>

\* a caller reads Aggregate.changes
ReadChanges ==
    /\ changes_view' = Changes(agg)
    /\ agg_last' = Returned("changes", "")
    /\ UNCHANGED <<agg, raised, agg_born>>

\* the caller works through the tuple it was given, dropping what it has handled
HandleChanges ==
    /\ changes_view # <<>>
    /\ changes_view' = Tail(changes_view)
    /\ agg' = IF ChangesSharesBuffer THEN [agg EXCEPT !.events = Tail(@)] ELSE agg
    /\ agg_last' = Returned("handle_changes", "")
    /\ UNCHANGED <<raised, agg_born>>

\* a plausible slip: the replay goes through _raise_event, which buffers the event
ReplayStepRaising(a, event) ==
    [UserApply(a, event) EXCEPT !.events = BufferAppend(a.events, event)]

\* a plausible slip: the replay applies the creation event only
ReplayStepCreationOnly(a, event) ==
    IF event.type = "UserRegistered" THEN UserApply(a, event) ELSE a

\* User.load line 63: coach._apply(event)
ReplayStep(a, event) == UserApply(a, event)

RECURSIVE Replay(_, _)
\* the loop of User.load: _apply on each event in turn
Replay(a, events) ==
    IF events = <<>> THEN a ELSE Replay(ReplayStep(a, Head(events)), Tail(events))

RECURSIVE FirstUnhandled(_)
\* the event at which the replay raises; none when every event is handled
FirstUnhandled(events) ==
    IF events = <<>> THEN [type |-> "", name |-> ""]
    ELSE IF ~AggregateHandles(Head(events)) THEN Head(events)
    ELSE FirstUnhandled(Tail(events))

Histories == UNION {SeqsOfLen(AggregateEvents, n) : n \in 0..MaxChanges}

\* User.load(user_id, version, name, events): construct, then replay; when the replay
\* raises, no aggregate is returned and the one at hand stays
Load(version, name, events) ==
    LET fresh == [name |-> name, version |-> version, events |-> <<>>]
        bad == FirstUnhandled(events)
    IN  IF bad.type = ""
        THEN /\ agg' = Replay(fresh, events)
             /\ raised' = <<>>
             /\ agg_last' = Returned("load", "")
             /\ agg_born' = [version |-> version, applied |-> Len(events), name |-> name]
             /\ UNCHANGED changes_view
        ELSE /\ agg_last' = Raised("load", bad)
             /\ UNCHANGED <<agg, raised, changes_view, agg_born>>

ProjectorIdle ==
    /\ UNCHANGED service_vars
    /\ UNCHANGED projection_vars
    /\ UNCHANGED sequential_vars
    /\ UNCHANGED concurrent_vars

RaiseEventCall == (\E event \in AggregateEvents : RaiseEvent(event)) /\ ProjectorIdle

ApplyEventCall == (\E event \in AggregateEvents : ApplyEvent(event)) /\ ProjectorIdle

ClearEventsCall == ClearEvents /\ ProjectorIdle

ReadChangesCall == ReadChanges /\ ProjectorIdle

HandleChangesCall == HandleChanges /\ ProjectorIdle

LoadCall ==
    /\ \E version \in 0..MaxVersion, name \in Names, events \in Histories :
          Load(version, name, events)
    /\ ProjectorIdle

\* Aggregate.__init__ through the User constructor: the given version, an empty buffer
InitAggregate ==
    /\ InitProjection
    /\ InitWorkers
    /\ stream = NoStream
    /\ cursor = 0
    /\ agg \in [name : Names, version : 0..MaxVersion, events : {<<>>}]
    /\ raised = <<>>
    /\ changes_view = <<>>
    /\ agg_last = NoOperation
    /\ agg_born = [version |-> agg.version, applied |-> 0, name |-> agg.name]
    /\ IdleServices

NextAggregate ==
    \/ RaiseEventCall
    \/ ApplyEventCall
    \/ ClearEventsCall
    \/ ReadChangesCall
    \/ HandleChangesCall
    \/ LoadCall

SpecAggregate == InitAggregate /\ [][NextAggregate]_vars

----------------------------------------------------------------------------
(* EventDispatcher: subscribe and dispatch *)

\* the one stream the dispatched Events belong to
DispatchStream == "E1"

DispatchPositions == 0..MaxDispatchPos

\* Projector.handles of each test projection: the event classes apply is registered for
Handles(listener) ==
    CASE listener = "UserDetailsProjection" -> {"UserRegistered", "UserNameUpdated"}
      [] listener = "AccountDetailsProjection" -> {"UserRegistered"}
      [] OTHER -> {}

\* subscribe line 145: f"{type(listener).__name__} of {type(listener.projection).__name__}"
ListenerName(listener) == "Projector of " \o listener

\* UnprocessableListener.__init__: the message of the exception; the source quotes the
\* listener's name with grave accents, which a TLA+ string cannot hold: ' stands for them
UnprocessableListenerMessage(listener_name) ==
    "Cannot subscribe '" \o listener_name \o "' because it does not handle any event"

\* MapperNotFound.__init__: the message of the exception
MapperNotFoundMessage(event_type) ==
    "No Event Mapper was found for event " \o event_type \o "."

\* a plausible slip: the guard on an empty handles set left out
CanSubscribeAny(listener) == TRUE

\* subscribe line 147, negated: if not handled_types
CanSubscribe(listener) == Handles(listener) # {}

\* a plausible slip: the listener placed at the head of each list
RegisterFirst(registry, listener) ==
    [event_type \in EventTypes |->
        IF event_type \in Handles(listener)
        THEN <<listener>> \o registry[event_type]
        ELSE registry[event_type]]

\* subscribe lines 151-155: the listener appended under each event type it handles
Register(registry, listener) ==
    [event_type \in EventTypes |->
        IF event_type \in Handles(listener)
        THEN Append(registry[event_type], listener)
        ELSE registry[event_type]]

\* EventDispatcher.subscribe
Subscribe(listener) ==
    /\ Len(subscribed) < MaxSubscribes
    /\ IF CanSubscribe(listener)
       THEN /\ listeners' = Register(listeners, listener)
            /\ subscribed' = Append(subscribed, listener)
            /\ sub_last' = [listener |-> listener, outcome |-> "True", message |-> ""]
       ELSE /\ sub_last' = [listener |-> listener, outcome |-> "UnprocessableListener",
                            message |-> UnprocessableListenerMessage(ListenerName(listener))]
            /\ UNCHANGED <<listeners, subscribed>>
    /\ UNCHANGED <<listener_store, mapper, disp_last>>

\* a plausible slip: the lookup of the listeners left out
HasListenersAlways(registry, event_type) == TRUE

\* dispatch line 176, negated: event_type in self._listeners
HasListeners(registry, event_type) == registry[event_type] # <<>>

\* self._mapper.map(event_data, event_type) of each pipeline
MapperMap(mapping, event_type) ==
    CASE mapping = "NoDomainEventMapper" -> NoEvent
      [] mapping = "FakeDomainEventMapper" -> [type |-> "UserRegistered"]
      [] mapping = "FakeNameUpdatedMapper" -> [type |-> "UserNameUpdated"]
      [] mapping = "UserRegisteredMapper" ->
            IF event_type = "UserRegistered" THEN [type |-> event_type] ELSE NoEvent
      [] OTHER -> [type |-> event_type]

\* a plausible slip: the test of the mapping result left out
MappedAlways(domain_event) == TRUE

\* dispatch line 183, negated: if not domain_event
Mapped(domain_event) == domain_event # NoEvent

\* Projector.process of one listener on its own projection's store
ListenerOutcome(listener, store, event, position, entity_id) ==
    IF event = NoEvent THEN "AttributeError"
    ELSE LET decision == Decision(position, get_position(store, entity_id, qualname(event)))
         IN  IF decision # "apply" THEN decision
             ELSE IF qualname(event) \in Handles(listener) THEN "applied"
             ELSE "UnknownEvent"

\* a plausible slip: the loop goes on after a listener raised
ProcessRaisedNever(outcome) == FALSE

\* whether process left by an exception, which dispatch does not catch
ProcessRaised(outcome) == outcome \in {"OutOfOrderEvent", "UnknownEvent", "AttributeError"}

RECURSIVE FanOut(_, _, _, _, _, _)
\* dispatch lines 190-191: process on each listener of the group in turn, until one raises
FanOut(group, stores, process_calls, event, position, entity_id) ==
    IF group = <<>>
    THEN [stores |-> stores, process_calls |-> process_calls, outcome |-> "dispatched"]
    ELSE LET listener == Head(group)
             outcome == ListenerOutcome(listener, stores[listener], event, position, entity_id)
             logged == Append(process_calls,
                              [listener |-> listener, event_type |-> event.type,
                               position |-> position, entity_id |-> entity_id,
                               outcome |-> outcome])
             stored == IF UpdateCalled(outcome)
                       THEN [stores EXCEPT ![listener] =
                                update_position(@, entity_id, qualname(event), position)]
                       ELSE stores
         IN  IF ProcessRaised(outcome)
             THEN [stores |-> stores, process_calls |-> logged, outcome |-> outcome]
             ELSE FanOut(Tail(group), stored, logged, event, position, entity_id)

\* the message of the exception a dispatch ends with, "" when it returns
DispatchMessage(outcome, event_type, position, entity_id, process_calls) ==
    CASE outcome = "MapperNotFound" -> MapperNotFoundMessage(event_type)
      [] outcome = "OutOfOrderEvent" -> OutOfOrderEventMessage(entity_id, position)
      [] outcome = "UnknownEvent" ->
            UnknownEventMessage(event_type, process_calls[Len(process_calls)].listener)
      [] OTHER -> ""

\* EventDispatcher.dispatch
Dispatch(event_type, position, stream_id) ==
    LET domain_event == MapperMap(mapper, event_type)
        fan == FanOut(listeners[event_type], listener_store, <<>>,
                      domain_event, position, stream_id)
        called == [event_type |-> event_type, position |-> position, stream_id |-> stream_id,
                   outcome |-> "no_listener", message |-> "", map_called |-> FALSE,
                   domain_event |-> NoEvent, process_calls |-> <<>>]
    IN  /\ IF ~HasListeners(listeners, event_type)
           THEN /\ disp_last' = called
                /\ UNCHANGED listener_store
           ELSE IF ~Mapped(domain_event)
           THEN /\ disp_last' = [called EXCEPT
                                   !.outcome = "MapperNotFound",
                                   !.message = MapperNotFoundMessage(event_type),
                                   !.map_called = TRUE]
                /\ UNCHANGED listener_store
           ELSE /\ disp_last' = [called EXCEPT
                                   !.outcome = fan.outcome,
                                   !.message = DispatchMessage(fan.outcome, domain_event.type,
                                                               position, stream_id,
                                                               fan.process_calls),
                                   !.map_called = TRUE,
                                   !.domain_event = domain_event,
                                   !.process_calls = fan.process_calls]
                /\ listener_store' = fan.stores
        /\ UNCHANGED <<listeners, subscribed, mapper, sub_last>>

OnlyDispatcher ==
    /\ UNCHANGED mapper_vars
    /\ UNCHANGED bus_vars
    /\ UNCHANGED projection_vars
    /\ UNCHANGED sequential_vars
    /\ UNCHANGED concurrent_vars
    /\ UNCHANGED aggregate_vars

SubscribeCall ==
    /\ \E listener \in Projectors : Subscribe(listener)
    /\ OnlyDispatcher

DispatchCall ==
    /\ \E event_type \in EventTypes, position \in DispatchPositions :
          Dispatch(event_type, position, DispatchStream)
    /\ OnlyDispatcher

InitDispatcherSpec ==
    /\ InitProjection
    /\ InitWorkers
    /\ IdleAggregate
    /\ stream = NoStream
    /\ cursor = 0
    /\ InitDispatcher
    /\ mapper \in Mappers
    /\ InitMappers
    /\ InitBus
    /\ request_id_var = Unset

NextDispatcher == SubscribeCall \/ DispatchCall

SpecDispatcher == InitDispatcherSpec /\ [][NextDispatcher]_vars

----------------------------------------------------------------------------
(* Mapper, MappersChain and MappingPipeline *)

\* Mapper.event_type: the name of the event class the mapper is declared for
MapperEventType(m) ==
    IF m = "logged_in_mapper" THEN "UserLoggedIn" ELSE "UserRegistered"

\* Mapper.set_next
set_next(next, m, target) == [next EXCEPT ![m] = target]

\* a plausible slip: the new mapper is not linked to the mappers added before
ChainLinkDropped(next, first, m) == next

\* MappersChain.add lines 141-142: if self._first: mapper.set_next(self._first)
ChainLink(next, first, m) ==
    IF first # NoMapper THEN set_next(next, m, first) ELSE next

\* MappersChain.add
ChainAdd(m) ==
    /\ Len(chain_added) < MaxAdds
    /\ chain_next' = ChainLink(chain_next, chain_first, m)
    /\ chain_mappers' = <<m>> \o chain_mappers
    /\ chain_first' = m
    /\ chain_added' = Append(chain_added, m)
    /\ UNCHANGED <<pipeline, map_last>>

\* a walk that enters more mappers than there are instances is in a cycle of _next links
\* and never returns: Python ends it with RecursionError
WalkLimit == Cardinality(MapperInstances)

RECURSIVE MapFrom(_, _, _, _, _)
\* the map of a test mapper: the event when the type is its own, map_next otherwise;
\* Mapper.map_next: None without a next mapper, else the next mapper's map
MapFrom(next, m, event_type, fuel, called) ==
    IF m = NoMapper
    THEN [outcome |-> "ok", result |-> NoResult, called |-> called]
    ELSE IF fuel = 0
    THEN [outcome |-> "RecursionError", result |-> NoResult, called |-> called]
    ELSE IF MapperEventType(m) = event_type
    THEN [outcome |-> "ok", result |-> [type |-> event_type, mapped_by |-> m],
          called |-> Append(called, m)]
    ELSE MapFrom(next, next[m], event_type, fuel - 1, Append(called, m))

\* MappersChain.map: None without a first mapper, else the first mapper's map
ChainMapResult(first, next, event_type) ==
    MapFrom(next, first, event_type, WalkLimit, <<>>)

\* MappersChain.map
ChainMap(event_type) ==
    LET r == ChainMapResult(chain_first, chain_next, event_type)
    IN  /\ map_last' = [op |-> "chain_map", event_type |-> event_type,
                        outcome |-> r.outcome, result |-> r.result, called |-> r.called]
        /\ UNCHANGED <<chain_first, chain_next, chain_mappers, chain_added, pipeline>>

\* the behaviors a pipeline is given: the chain above, a MappersChain() nothing was added
\* to, and a chain of its own holding one UserRegisteredMapper
Behaviors == {"chain", "empty_chain", "registered_chain"}

\* MappingBehavior.map of each behavior
BehaviorMap(behavior, first, next, event_type) ==
    CASE behavior = "chain" -> ChainMapResult(first, next, event_type)
      [] behavior = "registered_chain" ->
            [outcome |-> "ok",
             result |-> IF event_type = "UserRegistered"
                        THEN [type |-> event_type, mapped_by |-> behavior]
                        ELSE NoResult,
             called |-> <<>>]
      [] OTHER -> [outcome |-> "ok", result |-> NoResult, called |-> <<>>]

\* a plausible slip: the behavior placed at the head of the list
RegisterBehaviorFirst(behaviors, behavior) == <<behavior>> \o behaviors

\* MappingPipeline.register line 175: self._chain.append(behavior)
RegisterBehavior(behaviors, behavior) == Append(behaviors, behavior)

\* MappingPipeline.register
PipelineRegister(behavior) ==
    /\ Len(pipeline) < MaxBehaviors
    /\ pipeline' = RegisterBehavior(pipeline, behavior)
    /\ UNCHANGED <<chain_first, chain_next, chain_mappers, chain_added, map_last>>

RECURSIVE PipelineMapResult(_, _, _, _, _)
\* MappingPipeline.map lines 188-193: each behavior in turn until one returns an event
PipelineMapResult(behaviors, first, next, event_type, called) ==
    IF behaviors = <<>>
    THEN [outcome |-> "ok", result |-> NoResult, called |-> called]
    ELSE LET r == BehaviorMap(Head(behaviors), first, next, event_type)
             entered == Append(called, Head(behaviors))
         IN  IF r.outcome # "ok"
             THEN [outcome |-> r.outcome, result |-> NoResult, called |-> entered]
             ELSE IF r.result # NoResult
             THEN [outcome |-> "ok", result |-> r.result, called |-> entered]
             ELSE PipelineMapResult(Tail(behaviors), first, next, event_type, entered)

\* MappingPipeline.map
PipelineMap(event_type) ==
    LET r == PipelineMapResult(pipeline, chain_first, chain_next, event_type, <<>>)
    IN  /\ map_last' = [op |-> "pipeline_map", event_type |-> event_type,
                        outcome |-> r.outcome, result |-> r.result, called |-> r.called]
        /\ UNCHANGED <<chain_first, chain_next, chain_mappers, chain_added, pipeline>>

OnlyMappers ==
    /\ UNCHANGED projection_vars
    /\ UNCHANGED sequential_vars
    /\ UNCHANGED concurrent_vars
    /\ UNCHANGED aggregate_vars
    /\ UNCHANGED dispatcher_vars
    /\ UNCHANGED bus_vars

ChainAddCall ==
    /\ \E m \in MapperInstances : ChainAdd(m)
    /\ OnlyMappers

ChainMapCall ==
    /\ \E event_type \in EventTypes : ChainMap(event_type)
    /\ OnlyMappers

PipelineRegisterCall ==
    /\ \E behavior \in Behaviors : PipelineRegister(behavior)
    /\ OnlyMappers

PipelineMapCall ==
    /\ \E event_type \in EventTypes : PipelineMap(event_type)
    /\ OnlyMappers

NextMappers == ChainAddCall \/ ChainMapCall \/ PipelineRegisterCall \/ PipelineMapCall

SpecMappers == Init /\ [][NextMappers]_vars

----------------------------------------------------------------------------
(* ServiceBus: register and send *)

\* the handlers of service_bus_test.py
BusHandlers ==
    {"RegisterUserCommandHandler", "FaultyRegisterUserHandler", "GetUserByIDQueryHandler",
     "RegisterOfficialValidator", "RegistrationEventHandler"}

\* register lines 88-90: the name of the class the handler's generic base is given
HandledRequest(handler) ==
    CASE handler = "GetUserByIDQueryHandler" -> "GetUserByID"
      [] handler = "RegistrationEventHandler" -> "UserRegistered"
      [] OTHER -> "RegisterUser"

\* register lines 96 and 101: the isinstance tests
HandlerKind(handler) ==
    CASE handler \in {"RegisterUserCommandHandler", "FaultyRegisterUserHandler",
                      "GetUserByIDQueryHandler"} -> "handler"
      [] handler = "RegisterOfficialValidator" -> "validator"
      [] OTHER -> "unsupported"

\* HandlerAlreadyRegistered.__init__: the message; ' stands for the grave accents
HandlerAlreadyRegisteredMessage(request_type) ==
    "A Handler has been already registered for '" \o request_type \o "'"

\* UnsupportedHandler.__init__: the message; ' stands for the grave accents
UnsupportedHandlerMessage(handler) ==
    "'" \o handler \o "' cannot be registered to ServiceBus"

\* a plausible slip: the test for a registered handler left out
AlreadyRegisteredNever(handlers, request_type) == FALSE

\* register line 92: request_type in self._handlers
AlreadyRegistered(handlers, request_type) == handlers[request_type] # NoHandler

\* ServiceBus.register
BusRegister(handler) ==
    LET request_type == HandledRequest(handler)
        called == [handler |-> handler, request_type |-> request_type,
                   outcome |-> "True", message |-> ""]
    IN  /\ IF AlreadyRegistered(bus_handlers, request_type)
           THEN /\ reg_last' = [called EXCEPT
                                  !.outcome = "HandlerAlreadyRegistered",
                                  !.message = HandlerAlreadyRegisteredMessage(request_type)]
                /\ UNCHANGED <<bus_handlers, bus_validators>>
           ELSE IF HandlerKind(handler) = "handler"
           THEN /\ bus_handlers' = [bus_handlers EXCEPT ![request_type] = handler]
                /\ reg_last' = called
                /\ UNCHANGED bus_validators
           ELSE IF HandlerKind(handler) = "validator"
           THEN /\ bus_validators' = [bus_validators EXCEPT ![request_type] = handler]
                /\ reg_last' = called
                /\ UNCHANGED bus_handlers
           ELSE /\ reg_last' = [called EXCEPT
                                  !.outcome = "UnsupportedHandler",
                                  !.message = UnsupportedHandlerMessage(handler)]
                /\ UNCHANGED <<bus_handlers, bus_validators>>
        /\ UNCHANGED <<request_id_var, send_last>>

\* the user id the test handlers know, and another one
UserIds == {"018f9284-769b-726d-b3bf-3885bf2ddd3c", "018f9284-769b-726d-b3bf-000000000000"}

\* the requests sent: RegisterUser commands, GetUserByID queries and a domain event
Requests ==
    [type : {"RegisterUser"}, name : {"", "John Doe", "John Doe Smith"}, user_id : UserIds]
    \cup [type : {"GetUserByID"}, name : {""}, user_id : UserIds]
    \cup {[type |-> "UserRegistered", name |-> "", user_id |-> ""]}

\* process lines 131 and 134: the isinstance tests
RequestKind(request) ==
    CASE request.type = "RegisterUser" -> "Command"
      [] request.type = "GetUserByID" -> "Query"
      [] OTHER -> "DomainEvent"

\* context.request_id of the calls, and a request id set by the caller's own scope
RequestIds == {"019bf1bf-7398-7860-b4a8-9cafdda482ff", "019bf1bf-7398-7860-b4a8-000000000000"}

OuterRequestId == "019bf1bf-0000-7860-b4a8-000000000000"

\* RegisterOfficialValidator.validate: is_valid of the result
Validate(validator, request) == request.name # ""

\* execute of each test handler: Ok, Err or an exception
Execute(handler, request) ==
    CASE handler = "FaultyRegisterUserHandler" ->
            [result |-> "raise", value |-> "ValueError"]
      [] handler = "GetUserByIDQueryHandler" ->
            IF request.user_id = "018f9284-769b-726d-b3bf-3885bf2ddd3c"
            THEN [result |-> "Ok", value |-> "ReadModel"]
            ELSE [result |-> "Err", value |-> "User.Id.NotFound"]
      [] OTHER ->
            IF request.name = "John Doe"
            THEN [result |-> "raise", value |-> "DuplicateName"]
            ELSE IF request.user_id = "018f9284-769b-726d-b3bf-3885bf2ddd3c"
            THEN [result |-> "Ok", value |-> "Acknowledgement"]
            ELSE [result |-> "Err", value |-> "User.Slug.NotUnique"]

\* process_command line 170: 404 if NOT_FOUND in error.code else 422
ErrorStatus(code) == IF code = "User.Id.NotFound" THEN 404 ELSE 422

\* whether except DomainError catches the exception: never a ValueError; DuplicateName
\* is the domain error of the test handler
IsDomainError(exception) == exception = "DuplicateName"

\* ServiceBus.process, with pre_process, process_command and process_query
BusProcess(request) ==
    LET validator == bus_validators[request.type]
        handler == bus_handlers[request.type]
        executed == Execute(handler, request)
        rejected == [outcome |-> "Rejection", status_code |-> 501, raised |-> "",
                     validated_by |-> validator, executed_by |-> NoHandler]
    IN  IF validator # NoHandler /\ ~Validate(validator, request)
        THEN [rejected EXCEPT !.status_code = 400]
        ELSE IF RequestKind(request) = "DomainEvent" THEN rejected
        ELSE IF handler = NoHandler THEN rejected
        ELSE CASE executed.result = "Ok" ->
                    [rejected EXCEPT !.outcome = executed.value, !.status_code = 0,
                                     !.executed_by = handler]
               [] executed.result = "Err" ->
                    [rejected EXCEPT !.status_code = ErrorStatus(executed.value),
                                     !.executed_by = handler]
               [] OTHER ->
                    [rejected EXCEPT !.outcome = "raised", !.raised = executed.value,
                                     !.executed_by = handler]

\* send lines 111-122: what the call ends with; the return in the finally block ends the
\* call with response whatever exception was on its way
SendResponse(processed) ==
    IF processed.raised = "" THEN processed
    ELSE IF IsDomainError(processed.raised)
    THEN [processed EXCEPT !.outcome = "Rejection", !.status_code = 422]
    ELSE [processed EXCEPT !.outcome = "Rejection", !.status_code = 501]

\* a plausible slip: the reset of the context variable left out
ResetForgotten(current, old_value) == current

\* send line 121: request_id_var.reset(token), token holding the value before the set
Reset(current, old_value) == old_value

\* ServiceBus.send
Send(request, request_id) ==
    LET old_value == request_id_var
        current == request_id
        processed == BusProcess(request)
        response == SendResponse(processed)
    IN  /\ send_last' = [request |-> request, request_id |-> request_id,
                         before |-> old_value,
                         seen |-> IF processed.executed_by # NoHandler THEN current ELSE "",
                         validated_by |-> processed.validated_by,
                         executed_by |-> processed.executed_by,
                         raised |-> processed.raised,
                         outcome |-> response.outcome,
                         status_code |-> response.status_code]
        /\ request_id_var' = Reset(current, old_value)
        /\ UNCHANGED <<bus_handlers, bus_validators, reg_last>>

OnlyBus ==
    /\ UNCHANGED projection_vars
    /\ UNCHANGED sequential_vars
    /\ UNCHANGED concurrent_vars
    /\ UNCHANGED aggregate_vars
    /\ UNCHANGED dispatcher_vars
    /\ UNCHANGED mapper_vars

BusRegisterCall ==
    /\ \E handler \in BusHandlers : BusRegister(handler)
    /\ OnlyBus

SendCall ==
    /\ \E request \in Requests, request_id \in RequestIds : Send(request, request_id)
    /\ OnlyBus

InitBusSpec ==
    /\ InitProjection
    /\ InitWorkers
    /\ IdleAggregate
    /\ stream = NoStream
    /\ cursor = 0
    /\ InitDispatcher
    /\ mapper = "NoDomainEventMapper"
    /\ InitMappers
    /\ InitBus
    /\ request_id_var \in {Unset, OuterRequestId}

NextBus == BusRegisterCall \/ SendCall

SpecBus == InitBusSpec /\ [][NextBus]_vars

----------------------------------------------------------------------------
(* Claims about Projector.process, sequential calls *)

LastKey == <<last.entity_id, last.event_type>>

LastCalled == last.outcome # "none"

\* what a step that is a process call leaves alone when it neither applies nor updates
ProjectionUnchanged ==
    /\ position_store' = position_store
    /\ read_model' = read_model
    /\ applied' = applied

\* C1: a process call repeating the accepted call before it (same entity, event type
\* and position) is a no-op: apply has run exactly once for that position and the
\* stored position is still p
C1_IdempotentReplay ==
    [][(/\ last.outcome = "applied"
        /\ last'.entity_id = last.entity_id
        /\ last'.event_type = last.event_type
        /\ last'.position = last.position)
       => (/\ last'.outcome = "skipped"
           /\ ~last'.apply_called
           /\ ~last'.update_called
           /\ ProjectionUnchanged
           /\ applied'[<<LastKey, last.position>>] = 1
           /\ get_position(position_store', last.entity_id, last.event_type)
                 = last.position)]_vars

\* the accepted call at position p was followed by the same call, which was skipped
C1_Witness ==
    /\ last.outcome = "skipped"
    /\ last.position = last.current_position
    /\ last.position >= 1
    /\ applied[<<LastKey, last.position>>] = 1

\* C2: a call whose position is beyond current + 1 raises OutOfOrderEvent naming the
\* position and the entity, and calls neither apply nor update_position
C2_StrictOrdering ==
    [][(/\ last' # last
        /\ last'.position > last'.current_position + 1)
       => (/\ last'.current_position
                 = get_position(position_store, last'.entity_id, last'.event_type)
           /\ last'.outcome = "OutOfOrderEvent"
           /\ last'.message = "Event out of order received at position "
                 \o ToString(last'.position) \o " for Projection '"
                 \o last'.entity_id \o "'."
           /\ ~last'.apply_called
           /\ ~last'.update_called
           /\ ProjectionUnchanged)]_vars

\* position 3 rejected while the stored position is 1, as in the projector's test
C2_Witness ==
    /\ last.outcome = "OutOfOrderEvent"
    /\ last.position = 3
    /\ last.current_position = 1
    /\ last.message = "Event out of order received at position 3 for Projection 'E1'."

\* C3: after a call at position current + 1 whose apply succeeds, the stored position
\* is exactly the position just applied
C3_PositionAdvance ==
    /\ (/\ LastCalled
        /\ last.position = last.current_position + 1
        /\ last.event_type \in HandledTypes)
       => last.outcome = "applied"
    /\ last.outcome = "applied"
       => /\ last.position = last.current_position + 1
          /\ last.update_called
          /\ get_position(position_store, last.entity_id, last.event_type)
                = last.position

C3_Witness ==
    /\ last.outcome = "applied"
    /\ last.position = 2
    /\ get_position(position_store, last.entity_id, last.event_type) = 2

\* C4: a call at any position at or below the current one returns without error and
\* without apply or update_position; stored position and read model stay as they were
C4_AlreadyAppliedSkip ==
    [][(/\ last' # last
        /\ last'.position < last'.current_position + 1)
       => (/\ last'.current_position
                 = get_position(position_store, last'.entity_id, last'.event_type)
           /\ last'.outcome = "skipped"
           /\ last'.message = ""
           /\ ~last'.apply_called
           /\ ~last'.update_called
           /\ ProjectionUnchanged)]_vars

\* a position strictly below the latest one was skipped
C4_Witness ==
    /\ last.outcome = "skipped"
    /\ last.position >= 1
    /\ last.position < last.current_position

\* C5: the stored position of every (entity, event type) never decreases and changes
\* only by exactly one
C5_PositionStepsByOne ==
    [][\A k \in Keys :
          \/ position_store'[k] = position_store[k]
          \/ position_store'[k] = position_store[k] + 1]_vars

\* a rejected call after the position had advanced twice
C5_Witness ==
    /\ last.outcome = "OutOfOrderEvent"
    /\ position_store[LastKey] = 1
    /\ \E k \in Keys : position_store[k] = 2

\* C7: when apply raises UnknownEvent at position current + 1 the exception leaves
\* process and update_position is not called: the stored position keeps its value
C7_UnknownEventPropagates ==
    /\ (/\ LastCalled
        /\ last.position = last.current_position + 1
        /\ last.event_type \notin HandledTypes)
       => /\ last.outcome = "UnknownEvent"
          /\ last.message = "Event '" \o last.event_type
                \o "' cannot be applied to 'UserDetailsProjection'"
    /\ last.outcome = "UnknownEvent"
       => /\ last.apply_called
          /\ ~last.update_called
          /\ get_position(position_store, last.entity_id, last.event_type)
                = last.current_position
          /\ applied[<<LastKey, last.position>>] = 0

C7_Witness ==
    /\ last.outcome = "UnknownEvent"
    /\ last.event_type = "UserLoggedIn"
    /\ last.message = "Event 'UserLoggedIn' cannot be applied to 'UserDetailsProjection'"
    /\ read_model[last.entity_id].events_applied > 0

\* C6: a stream delivered in order, duplicates allowed and no gaps, to an unseen entity
\* never raises OutOfOrderEvent, and once delivered to its end every position's event
\* has been applied exactly once
C6_InOrderDeliverySufficient ==
    /\ last.outcome # "OutOfOrderEvent"
    /\ cursor = Len(stream.events)
       => \A p \in 1..Len(stream.events) :
             applied[<<<<stream.entity_id, stream.events[p]>>, p>>] = 1

----------------------------------------------------------------------------
(* Claims about concurrent process calls *)

InFlight(w) == pc[w] \in {"apply", "update"}

\* C8: the position read, apply and update_position are separate steps with nothing
\* held between them: a caller past the check got there on its own read
\* (position = current_position + 1), and while it is past the check and has not yet
\* stored the position, a second call for the same entity, event type and position
\* passes the check as well
C8_CheckThenActNotAtomic ==
    /\ \A w \in Workers :
          InFlight(w) => frame[w].position = frame[w].current_position + 1
    /\ \A w \in Workers, v \in Workers :
          (/\ w # v
           /\ InFlight(w)
           /\ pc[v] = "idle"
           /\ calls < MaxConcurrentCalls
           /\ get_position(position_store, frame[w].entity_id, qualname(frame[w].event))
                 = frame[w].current_position)
          => ENABLED (/\ ReadAndCheck(v, frame[w].event, frame[w].position,
                                      frame[w].entity_id)
                      /\ pc'[v] = "apply")

\* two interleaved calls for position 1 of one entity and event type have both applied
C8_Witness ==
    \E e \in Entities, t \in HandledTypes :
        /\ applied[AppliedKey(e, t, 1)] = 2
        /\ \A w \in Workers :
              /\ frame[w].entity_id = e
              /\ frame[w].event.type = t
              /\ frame[w].position = 1
              /\ frame[w].current_position = 0

----------------------------------------------------------------------------
(* Claims about the Aggregate *)

\* C9: applying an event with no registered transition, through _apply during a replay
\* or through _raise_event, raises UnknownEvent with the message
\* "Event '<event type>' cannot be applied to '<aggregate type>'"; an operation that
\* returns has applied handled events only
C9_UnknownEventFailsFast ==
    /\ (/\ agg_last.op \in {"raise_event", "apply", "load"}
        /\ agg_last.event_type # ""
        /\ agg_last.event_type \notin AggregateHandledTypes)
       => /\ agg_last.outcome = "UnknownEvent"
          /\ agg_last.message = "Event '" \o agg_last.event_type
                \o "' cannot be applied to 'User'"
    /\ agg_last.outcome = "UnknownEvent"
       => agg_last.event_type \notin AggregateHandledTypes
    /\ \A i \in 1..Len(agg.events) : agg.events[i].type \in AggregateHandledTypes

\* the replay of a history holding a UserLoggedIn raised, as in the aggregate's test
C9_Witness ==
    /\ agg_last.op = "load"
    /\ agg_last.outcome = "UnknownEvent"
    /\ agg_last.message = "Event 'UserLoggedIn' cannot be applied to 'User'"

\* C10: changes is exactly the sequence of the events raised with success since
\* construction or the last clear_events, in the order raised; a successful raise
\* applies the event and appends it at the end; reading changes returns the buffer's
\* content and handling the returned tuple leaves the buffer as it is
C10_ChangesInRaiseOrder ==
    [][/\ Changes(agg') = raised'
       /\ \A event \in AggregateEvents :
             (RaiseEvent(event) /\ AggregateHandles(event))
             => /\ agg'.events = agg.events \o <<event>>
                /\ agg'.name = event.name
       /\ ReadChanges => (changes_view' = raised /\ agg' = agg)
       /\ HandleChanges => agg' = agg]_vars

\* two different events raised, read in the order raised, and the tuple handled since
C10_Witness ==
    /\ Len(agg.events) = 2
    /\ agg.events[1].type = "UserRegistered"
    /\ agg.events[2].type = "UserNameUpdated"
    /\ agg.events = raised
    /\ agg_last.op = "handle_changes"
    /\ changes_view = Tail(agg.events)

\* C11: an aggregate built by load from a history of handled events has an empty
\* pending-events buffer after the replay, whatever the history held
C11_ReplayLeavesBufferEmpty ==
    (agg_last.op = "load" /\ agg_last.outcome = "ok")
    => /\ agg.events = <<>>
       /\ Changes(agg) = <<>>
       /\ raised = <<>>

\* a history of two events was replayed and changed the state
C11_Witness ==
    /\ agg_last.op = "load"
    /\ agg_last.outcome = "ok"
    /\ agg_born.applied = 2
    /\ agg.name = "John Doe Smith"
    /\ Changes(agg) = <<>>

\* C12: clear_events empties the buffer whatever it held and changes neither the state
\* the applied events produced nor the version; an event raised next is alone in changes
C12_ClearEventsEmptiesBuffer ==
    [][/\ agg_last'.op = "clear_events"
          => /\ Changes(agg') = <<>>
             /\ agg'.name = agg.name
             /\ agg'.version = agg.version
       /\ \A event \in AggregateEvents :
             (/\ agg_last.op = "clear_events"
              /\ RaiseEvent(event)
              /\ AggregateHandles(event))
             => Changes(agg') = <<event>>]_vars

\* the buffer held two events, read before, when clear_events emptied it
C12_Witness ==
    /\ agg_last.op = "clear_events"
    /\ Len(changes_view) = 2
    /\ agg_born.applied = 2
    /\ agg.name = "John Doe Smith"
    /\ Changes(agg) = <<>>

\* C13: version is the version the aggregate was constructed with plus the number of
\* events applied to it with success, through _raise_event or _apply
C13_VersionCountsAppliedEvents ==
    agg.version = agg_born.version + agg_born.applied

\* C14: over the operations on one aggregate the version never decreases, and only
\* an event application (_raise_event, _apply) may change it
C14_VersionNeverDecreases ==
    [][agg_last'.op # "load"
       => /\ agg'.version >= agg.version
          /\ agg'.version # agg.version
             => agg_last'.op \in {"raise_event", "apply"}]_vars

\* events were applied and raised, the buffer cleared, and the version is the one
\* the aggregate was constructed with
C14_Witness ==
    /\ agg_last.op = "clear_events"
    /\ agg_born.applied = 3
    /\ agg.version = agg_born.version
    /\ agg.version = MaxVersion

----------------------------------------------------------------------------
(* Claims about EventDispatcher *)

\* the Projectors process was called on by the last dispatch, in call order
ProcessedListeners(process_calls) ==
    [i \in DOMAIN process_calls |-> process_calls[i].listener]

\* how many times process was called on the listener
TimesCalled(process_calls, listener) ==
    Cardinality({i \in DOMAIN process_calls : process_calls[i].listener = listener})

\* how many subscribe calls of the listener returned True
TimesSubscribed(listener) ==
    Cardinality({i \in DOMAIN subscribed : subscribed[i] = listener})

\* the subscribe calls, in order, of the Projectors that handle the event type
SubscriptionsTo(event_type) ==
    SelectSeq(subscribed, LAMBDA listener : event_type \in Handles(listener))

\* C15: dispatch of an Event whose type has no subscribed listener returns without
\* error, without calling the pipeline's map and without calling process on a listener
C15_NoSubscriberNoOp ==
    [][\A event_type \in EventTypes, position \in DispatchPositions :
          (/\ Dispatch(event_type, position, DispatchStream)
           /\ SubscriptionsTo(event_type) = <<>>)
          => /\ disp_last'.outcome = "no_listener"
             /\ disp_last'.message = ""
             /\ ~disp_last'.map_called
             /\ disp_last'.process_calls = <<>>
             /\ listener_store' = listener_store]_vars

\* an Event nobody listens to was dispatched through a pipeline that maps it, while
\* other event types had listeners
C15_Witness ==
    /\ disp_last.outcome = "no_listener"
    /\ disp_last.event_type = "UserNameUpdated"
    /\ listeners["UserRegistered"] = <<"AccountDetailsProjection">>
    /\ listeners["UserNameUpdated"] = <<>>
    /\ mapper = "MappingPipeline"

\* C16: dispatch of an Event whose type has a subscribed listener and that the pipeline
\* maps to no domain event raises MapperNotFound naming the event type, and calls
\* process on no listener
C16_MappingMissRaises ==
    [][\A event_type \in EventTypes, position \in DispatchPositions :
          (/\ Dispatch(event_type, position, DispatchStream)
           /\ SubscriptionsTo(event_type) # <<>>
           /\ MapperMap(mapper, event_type) = NoEvent)
          => /\ disp_last'.outcome = "MapperNotFound"
             /\ disp_last'.message =
                   "No Event Mapper was found for event " \o event_type \o "."
             /\ disp_last'.process_calls = <<>>
             /\ listener_store' = listener_store]_vars

\* two listeners wait for UserNameUpdated, which the pipeline has no mapper for
C16_Witness ==
    /\ disp_last.outcome = "MapperNotFound"
    /\ disp_last.message = "No Event Mapper was found for event UserNameUpdated."
    /\ mapper = "UserRegisteredMapper"
    /\ Len(listeners["UserNameUpdated"]) = 2
    /\ disp_last.process_calls = <<>>

\* what every process call of a dispatch is given: the mapped event, the Event's
\* position and its stream id, by a Projector that handles the Event's type
CallsWellFormed(process_calls, event_type, position, stream_id) ==
    \A i \in DOMAIN process_calls :
        /\ event_type \in Handles(process_calls[i].listener)
        /\ process_calls[i].event_type = MapperMap(mapper, event_type).type
        /\ process_calls[i].position = position
        /\ process_calls[i].entity_id = stream_id

\* C17 as stated: a successful dispatch of an Event of type T calls process exactly once
\* on each subscribed Projector whose handles contains T, in subscription order, and on
\* no Projector whose handles lacks T
C17_FanOutOncePerProjector ==
    [][\A event_type \in EventTypes, position \in DispatchPositions :
          (/\ Dispatch(event_type, position, DispatchStream)
           /\ disp_last'.outcome = "dispatched")
          => /\ \A listener \in Projectors :
                   (TimesSubscribed(listener) > 0 /\ event_type \in Handles(listener))
                   => TimesCalled(disp_last'.process_calls, listener) = 1
             /\ ProcessedListeners(disp_last'.process_calls) = SubscriptionsTo(event_type)
             /\ CallsWellFormed(disp_last'.process_calls, event_type, position,
                                DispatchStream)]_vars

\* C17 amended: a successful dispatch of an Event of type T calls process once for each
\* successful subscribe call of a Projector whose handles contains T (a Projector
\* subscribed k times is called k times), in the order of those subscribe calls, and on
\* no Projector whose handles lacks T
C17_FanOutOncePerSubscription ==
    [][\A event_type \in EventTypes, position \in DispatchPositions :
          (/\ Dispatch(event_type, position, DispatchStream)
           /\ disp_last'.outcome = "dispatched")
          => /\ ProcessedListeners(disp_last'.process_calls) = SubscriptionsTo(event_type)
             /\ \A listener \in Projectors :
                   event_type \in Handles(listener)
                   => TimesCalled(disp_last'.process_calls, listener)
                         = TimesSubscribed(listener)
             /\ CallsWellFormed(disp_last'.process_calls, event_type, position,
                                DispatchStream)]_vars

\* UserDetailsProjection's Projector subscribed twice around AccountDetailsProjection's,
\* and a dispatch of UserRegistered went through the three subscriptions
C17_Witness ==
    /\ disp_last.outcome = "dispatched"
    /\ disp_last.event_type = "UserRegistered"
    /\ subscribed = <<"UserDetailsProjection", "AccountDetailsProjection",
                      "UserDetailsProjection">>
    /\ ProcessedListeners(disp_last.process_calls) = subscribed

----------------------------------------------------------------------------
(* Claims about MappingPipeline and MappersChain *)

\* what the i-th registered behavior returns for the event type
BehaviorResult(i, event_type) ==
    BehaviorMap(pipeline[i], chain_first, chain_next, event_type)

\* the behaviors, by index, that return a domain event for the event type
Returning(event_type) ==
    {i \in DOMAIN pipeline : BehaviorResult(i, event_type).result # NoResult}

FirstReturning(event_type) ==
    CHOOSE i \in Returning(event_type) : \A j \in Returning(event_type) : i <= j

\* C19: MappingPipeline.map calls the behaviors in registration order, returns the first
\* domain event a behavior returns and calls no behavior after it; it returns None when
\* no behavior is registered or every behavior returns None
C19_PipelineFirstResultWins ==
    [][/\ \A behavior \in Behaviors :
             PipelineRegister(behavior) => pipeline' = pipeline \o <<behavior>>
       /\ \A event_type \in EventTypes :
             PipelineMap(event_type)
             => /\ map_last'.called = SubSeq(pipeline, 1, Len(map_last'.called))
                /\ \A i \in 1..(Len(map_last'.called) - 1) :
                      BehaviorResult(i, event_type).result = NoResult
                /\ map_last'.outcome = "ok"
                   => IF Returning(event_type) = {}
                      THEN /\ map_last'.result = NoResult
                           /\ map_last'.called = pipeline
                      ELSE /\ map_last'.result =
                                 BehaviorResult(FirstReturning(event_type), event_type).result
                           /\ Len(map_last'.called) = FirstReturning(event_type)]_vars

\* two behaviors both map UserRegistered: the chain, registered first, produced the
\* event and the second behavior was not called
C19_Witness ==
    /\ map_last.op = "pipeline_map"
    /\ pipeline = <<"chain", "registered_chain">>
    /\ map_last.result = [type |-> "UserRegistered", mapped_by |-> "registered_mapper"]
    /\ map_last.called = <<"chain">>

\* the added mappers, in the order of the add calls, that match the event type
Matching(event_type) ==
    SelectSeq(chain_added, LAMBDA m : MapperEventType(m) = event_type)

Reverse(seq) == [i \in DOMAIN seq |-> seq[Len(seq) + 1 - i]]

\* no mapper instance was added to the chain twice
EachAddedOnce ==
    \A i, j \in DOMAIN chain_added : chain_added[i] = chain_added[j] => i = j

----------------------------------------------------------------------------
(* Further claims about Projector.process *)

\* C24: a call takes the silent skip path only for a position whose event was applied
\* earlier for that entity and event type
C24_SkipOnlyApplied ==
    last.outcome = "skipped"
    => applied[AppliedKey(last.entity_id, last.event_type, last.position)] >= 1

----------------------------------------------------------------------------
(* Further claims about Aggregate *)

\* C25: _raise_event of an event the aggregate does not handle raises UnknownEvent
\* before the append: changes, the state and the version are what they were
C25_RefusedRaiseChangesNothing ==
    [][\A event \in AggregateEvents :
          (RaiseEvent(event) /\ ~AggregateHandles(event))
          => /\ agg_last'.outcome = "UnknownEvent"
             /\ Changes(agg') = Changes(agg)
             /\ agg'.name = agg.name
             /\ agg'.version = agg.version]_vars

\* an unhandled event was raised on an aggregate with one pending event, which stayed
C25_Witness ==
    /\ agg_last.op = "raise_event"
    /\ agg_last.outcome = "UnknownEvent"
    /\ agg_last.event_type = "UserLoggedIn"
    /\ Len(Changes(agg)) = 1
    /\ Changes(agg) = raised

\* the aggregate built from the initial values by replaying the events through _apply
Replayed(events) ==
    Replay([name |-> agg_born.name, version |-> agg_born.version, events |-> <<>>], events)

\* C26: an aggregate on which a sequence of handled events was raised one by one and
\* an aggregate built from the same initial values by replaying the sequence end in the
\* same state; the first holds the sequence in its buffer, the second holds nothing
C26_ReplayEquivalence ==
    agg_born.applied = Len(agg.events)
    => /\ Replayed(agg.events).name = agg.name
       /\ Replayed(agg.events).version = agg.version
       /\ Changes(Replayed(agg.events)) = <<>>
       /\ Changes(agg) = raised

\* every event applied to the aggregate was raised and is pending: a name update
\* followed by a registration
C26_Witness ==
    /\ agg_born.applied = 2
    /\ agg_born.name = "John Doe Smith"
    /\ Changes(agg) = <<[type |-> "UserNameUpdated", name |-> "John Doe Smith"],
                        [type |-> "UserRegistered", name |-> "John Doe"]>>
    /\ agg.name = "John Doe"

----------------------------------------------------------------------------
(* Further claims about EventDispatcher *)

\* the calls of the dispatch before the i-th in which the listener applied the event
AppliedBefore(process_calls, i, listener) ==
    \E j \in 1..(i - 1) :
        /\ process_calls[j].listener = listener
        /\ process_calls[j].outcome = "applied"

\* C27: when a listener's process raises OutOfOrderEvent or UnknownEvent during a
\* dispatch, dispatch raises it at once, the listeners subscribed after it are not
\* called, and the position updates of the listeners before it are kept
C27_PartialFanOutOnFailure ==
    [][\A event_type \in EventTypes, position \in DispatchPositions :
          (/\ Dispatch(event_type, position, DispatchStream)
           /\ \E i \in DOMAIN disp_last'.process_calls :
                 disp_last'.process_calls[i].outcome \in {"OutOfOrderEvent", "UnknownEvent"})
          => LET process_calls == disp_last'.process_calls
                 n == Len(process_calls)
                 key == <<DispatchStream, disp_last'.domain_event.type>>
             IN  /\ disp_last'.outcome = process_calls[n].outcome
                 /\ disp_last'.outcome \in {"OutOfOrderEvent", "UnknownEvent"}
                 /\ \A i \in 1..(n - 1) :
                       process_calls[i].outcome \in {"applied", "skipped"}
                 /\ ProcessedListeners(process_calls) = SubSeq(listeners[event_type], 1, n)
                 /\ \A listener \in Projectors :
                       listener_store'[listener] =
                          IF AppliedBefore(process_calls, n, listener)
                          THEN [listener_store[listener] EXCEPT ![key] = position]
                          ELSE listener_store[listener]]_vars

\* of three subscriptions the first applied the event at position 2, the second raised
\* OutOfOrderEvent and the third was not called
C27_Witness ==
    /\ disp_last.outcome = "OutOfOrderEvent"
    /\ Len(listeners[disp_last.event_type]) = 3
    /\ Len(disp_last.process_calls) = 2
    /\ disp_last.process_calls[1].outcome = "applied"
    /\ disp_last.position = 2
    /\ listener_store[disp_last.process_calls[1].listener]
          [<<DispatchStream, disp_last.domain_event.type>>] = 2
    /\ disp_last.message = "Event out of order received at position 2 for Projection 'E1'."

----------------------------------------------------------------------------
(* Further claims about MappersChain *)

\* C28: MappersChain.map terminates, returning a domain event or None, for every chain
\* built by add calls, the same mapper instance added more than once included, and for
\* every event type
C28_ChainMapTerminates ==
    map_last.op = "chain_map" => map_last.outcome = "ok"

----------------------------------------------------------------------------
(* Per-key isolation of Projector.process *)

\* C29: a process call for entity E and event type T leaves the stored position of
\* every other (entity, event type) as it was, whatever its outcome, and whether it
\* skips, rejects or accepts depends on the incoming position and the stored position
\* of (E, T) only
C29_PerKeyIsolation ==
    [][/\ \A k \in Keys \ {LastKey'} : position_store'[k] = position_store[k]
       /\ last'.outcome = "skipped"
             <=> last'.position < position_store[LastKey'] + 1
       /\ last'.outcome = "OutOfOrderEvent"
             <=> last'.position > position_store[LastKey'] + 1
       /\ last'.outcome \in {"applied", "UnknownEvent"}
             <=> last'.position = position_store[LastKey'] + 1]_vars

\* an event was accepted at position 1 for one key while another key of the same
\* entity stood at position 2
C29_Witness ==
    /\ last.outcome = "applied"
    /\ last.position = 1
    /\ \E k \in Keys :
          /\ k # LastKey
          /\ k[1] = last.entity_id
          /\ position_store[k] = 2

----------------------------------------------------------------------------
(* Claims about ServiceBus *)

\* C21: register for a request type that has a command or query handler raises
\* HandlerAlreadyRegistered, and the handler registered first stays the one the
\* requests of that type are routed to
C21_SecondHandlerRefused ==
    [][/\ \A handler \in BusHandlers :
             (/\ BusRegister(handler)
              /\ bus_handlers[HandledRequest(handler)] # NoHandler)
             => /\ reg_last'.outcome = "HandlerAlreadyRegistered"
                /\ reg_last'.message =
                      "A Handler has been already registered for '"
                         \o HandledRequest(handler) \o "'"
                /\ bus_handlers' = bus_handlers
       /\ \A request_type \in RequestTypes :
             bus_handlers[request_type] # NoHandler
             => bus_handlers'[request_type] = bus_handlers[request_type]
       /\ \A request \in Requests, request_id \in RequestIds :
             (Send(request, request_id) /\ send_last'.executed_by # NoHandler)
             => send_last'.executed_by = bus_handlers[request.type]]_vars

\* FaultyRegisterUserHandler was refused after RegisterUserCommandHandler, which then
\* executed a RegisterUser command
C21_Witness ==
    /\ reg_last.handler = "FaultyRegisterUserHandler"
    /\ reg_last.outcome = "HandlerAlreadyRegistered"
    /\ reg_last.message = "A Handler has been already registered for 'RegisterUser'"
    /\ send_last.executed_by = "RegisterUserCommandHandler"
    /\ send_last.outcome = "Acknowledgement"

\* C22: an exception of the handler that is not a domain error leaves send as that
\* exception, not as a Rejection
C22_OtherExceptionsPropagate ==
    (send_last.raised # "" /\ ~IsDomainError(send_last.raised))
    => send_last.outcome # "Rejection"

\* C23: the handler sees context.request_id as the ambient request id, and after send,
\* on every path, the ambient request id is the one it was before the call
C23_RequestIdSetAndRestored ==
    [][\A request \in Requests, request_id \in RequestIds :
          Send(request, request_id)
          => /\ request_id_var' = request_id_var
             /\ send_last'.before = request_id_var
             /\ send_last'.executed_by # NoHandler
                => send_last'.seen = request_id]_vars

\* a handler ran under the call's request id and raised a domain error, inside a scope
\* that has a request id of its own, which is back
C23_Witness ==
    /\ send_last.raised = "DuplicateName"
    /\ send_last.outcome = "Rejection"
    /\ send_last.seen = send_last.request_id
    /\ send_last.before = OuterRequestId
    /\ request_id_var = OuterRequestId

\* C30: a validator and a command or query handler of one request type register in
\* either order: the validator's register returns True, and the validator is
\* registered, also when the handler was registered before it
C30_RegisterOrderIrrelevant ==
    (/\ HandlerKind(reg_last.handler) = "validator"
     /\ bus_handlers[reg_last.request_type] # NoHandler)
    => /\ reg_last.outcome = "True"
       /\ bus_validators[reg_last.request_type] = reg_last.handler

====
